---- MODULE Spec2Model ----
(***************************************************************************)
(* Model of directdemod/server/server.py: the interval-windowed upload     *)
(* sink (upload_page), the scheduled tick (update), the batch pipeline     *)
(* (process), the straggler relocation (move_unprocessed_files), the       *)
(* configuration persistence (save_conf) and the exit hooks of main().     *)
(***************************************************************************)
EXTENDS Integers, Sequences, FiniteSets, TLC

VARIABLES
    RATE,        \* int(conf["update_rate"]), fixed after start-up
    start_date,  \* the global window cursor, an instant <<days, seconds>>
    fs,          \* images root: window label -> (file name -> content)
    tms,         \* tiles root: set of window labels that have a tile tree
    conf,        \* in-memory configuration: counter and counter->label entries
    confDisk,    \* conf.json as stored on disk
    pc,          \* position of the scheduler thread inside update()
    interval,    \* update(): local `interval`
    images,      \* update(): local `images` (the snapshot)
    plog,        \* what the merge stage of process() did in this tick
    tick0,       \* cursor and conf as they were when the tick began
    last,        \* summary of the last finished tick
    nticks,      \* number of update() invocations that have finished
    faults,      \* number of failures of external collaborators so far
    start0,      \* the cursor at start-up
    up,          \* upload requests: request id -> position and locals
    exitPc,      \* interpreter life cycle: running / hooks / exited
    pending,     \* atexit hooks still to run (run from the end)
    hookPc,      \* position inside the exit hook being run
    schedulerRunning

vars == <<RATE, start_date, fs, tms, conf, confDisk, pc, interval, images,
          plog, tick0, last, nticks, faults, start0, up, exitPc,
          pending, hookPc, schedulerRunning>>

----------------------------------------------------------------------------
(* Bounds *)

MaxTicks == 2
MaxReq == 2
MaxFaults == 1

Rates == {600}
Instants == {<<11016, 100>>}        \* 2000-02-29 00:01:40 UTC
Cats == {"NOAA19"}

----------------------------------------------------------------------------
(* time.gmtime / time.strftime("%Y-%m-%d_%H:%M:%S") *)

\* An instant is <<d, s>>: s seconds into day d after 1970-01-01, that is
\* the time 86400 * d + s of the source.  The two parts are kept apart so
\* that instants beyond 2^31 seconds can be written.
\* start_time + rate
TimePlus(t, w) ==
    LET s == t[2] + w
    IN  <<t[1] + s \div 86400, s % 86400>>

\* civil date of a day number counted from 1970-01-01
gmdate(z0) ==
    LET z == z0 + 719468
        era == z \div 146097
        doe == z - era * 146097
        yoe == (doe - doe \div 1460 + doe \div 36524 - doe \div 146096) \div 365
        doy == doe - (365 * yoe + yoe \div 4 - yoe \div 100)
        mp == (5 * doy + 2) \div 153
        d == doy - (153 * mp + 2) \div 5 + 1
        m == IF mp < 10 THEN mp + 3 ELSE mp - 9
        y == yoe + era * 400 + (IF m <= 2 THEN 1 ELSE 0)
    IN  [year |-> y, mon |-> m, mday |-> d]

gmtime(t) ==
    LET date == gmdate(t[1])
        rem == t[2]
    IN  [year |-> date.year, mon |-> date.mon, mday |-> date.mday,
         hour |-> rem \div 3600, min |-> (rem % 3600) \div 60, sec |-> rem % 60]

\* characters are their ASCII codes
Digit(n) == 48 + n
Pad2(n) == <<Digit((n \div 10) % 10), Digit(n % 10)>>
Pad4(n) == <<Digit((n \div 1000) % 10), Digit((n \div 100) % 10),
             Digit((n \div 10) % 10), Digit(n % 10)>>
\* %Y: the year in decimal, at least four digits
RECURSIVE Decimal(_)
Decimal(n) == IF n < 10 THEN <<Digit(n)>> ELSE Decimal(n \div 10) \o <<Digit(n % 10)>>
Year(n) == IF n < 1000 THEN Pad4(n) ELSE Decimal(n)
Dash == 45
Colon == 58
Underscore == 95

strftime(tm) ==
    Year(tm.year) \o <<Dash>> \o Pad2(tm.mon) \o <<Dash>> \o Pad2(tm.mday)
    \o <<Underscore>> \o Pad2(tm.hour) \o <<Colon>> \o Pad2(tm.min)
    \o <<Colon>> \o Pad2(tm.sec)

get_interval(start_time, rate) ==
    strftime(gmtime(start_time)) \o <<Underscore>> \o strftime(gmtime(TimePlus(start_time, rate)))

----------------------------------------------------------------------------
(* File names: a stem (its "_"-separated tokens) and an extension *)

Digits8 == {"20190812"}
Digits6Z == {"101500Z", "114000Z"}
Digits9Hz == {"137100000Hz"}

Capture1 == [stem |-> <<"SDRSharp", "20190812", "101500Z", "137100000Hz", "IQ">>, ext |-> ".png"]
Capture2 == [stem |-> <<"SDRSharp", "20190812", "114000Z", "137100000Hz", "IQ">>, ext |-> ".png"]
Other == [stem |-> <<"notes">>, ext |-> ".txt"]

\* PATTERN.match(file.filename)
PATTERN_match(name) ==
    /\ Len(name.stem) = 5
    /\ name.stem[1] = "SDRSharp"
    /\ name.stem[2] \in Digits8
    /\ name.stem[3] \in Digits6Z
    /\ name.stem[4] \in Digits9Hz
    /\ name.stem[5] = "IQ"
    /\ name.ext = ".png"

\* request.form["sat_type"] + "_" + file.filename
StoredName(cat, name) == [stem |-> <<cat>> \o name.stem, ext |-> name.ext]

\* os.path.splitext(x)[0] + "_geo.tif"
GeoName(x) == [stem |-> Append(x.stem, "geo"), ext |-> ".tif"]

MergedName == [stem |-> <<"merged">>, ext |-> ".tif"]

\* the files a request may carry
RequestFiles == {<<Capture1>>, <<Other>>, <<Capture1, Capture2>>}

----------------------------------------------------------------------------
(* Directories *)

isdir(d) == d \in DOMAIN fs

Files(d) == IF isdir(d) THEN DOMAIN fs[d] ELSE {}

RECURSIVE SetToSeq(_)
SetToSeq(S) ==
    IF S = {} THEN <<>>
    ELSE LET x == CHOOSE y \in S : TRUE IN <<x>> \o SetToSeq(S \ {x})

\* os.listdir: the entries in an arbitrary order
listdir(d) == SetToSeq(Files(d))

Range(s) == {s[i] : i \in 1..Len(s)}

EmptyDir == [n \in {} |-> [src |-> 0, form |-> "raw"]]

\* a write that keeps the content of a file that exists
WriteFile_keeping(dir, n, c) ==
    [m \in DOMAIN dir \cup {n} |-> IF m \in DOMAIN dir THEN dir[m] ELSE c]

\* a directory with file n written (created or overwritten)
WriteFile(dir, n, c) == [m \in DOMAIN dir \cup {n} |-> IF m = n THEN c ELSE dir[m]]

RemoveFiles(dir, S) == [m \in DOMAIN dir \ S |-> dir[m]]

\* the file tree with directory d replaced (created when absent)
PutDir(tree, d, dir) == [e \in DOMAIN tree \cup {d} |-> IF e = d THEN dir ELSE tree[e]]

----------------------------------------------------------------------------
(* Configuration *)

\* json.dump writes every key as a string
JsonKey(k) == [t |-> "str", v |-> k.v]

IntKey(n) == [t |-> "int", v |-> n]

json_dump(c) ==
    [counter |-> c.counter,
     entries |-> [k \in {JsonKey(j) : j \in DOMAIN c.entries} |->
                    LET js == {j \in DOMAIN c.entries : JsonKey(j) = k}
                    IN  c.entries[CHOOSE j \in js : \A i \in js : i.t = "int" => j.t = "int"]]]

NoEntries == [k \in {} |-> <<>>]

Truncated == [counter |-> -1, entries |-> NoEntries]

----------------------------------------------------------------------------
(* Start-up *)

\* a label recorded by an earlier run of the server
OldLabel == get_interval(<<0, 0>>, 600)

InitialConfs ==
    {[counter |-> 1, entries |-> [k \in {[t |-> "str", v |-> 0]} |-> OldLabel]]}

NoTick == [start |-> <<0, 0>>, conf |-> [counter |-> 0, entries |-> NoEntries]]

NoLog == [mode |-> "none", merged_written |-> FALSE, tiling_invoked |-> FALSE,
          raised |-> "no", n_artifacts |-> 0, results |-> <<>>,
          saved |-> "no", listed |-> FALSE, stragglers |-> {}]

NoLast == [kind |-> "none", interval |-> <<>>, images |-> <<>>, start |-> <<0, 0>>,
           conf |-> [counter |-> 0, entries |-> NoEntries], plog |-> NoLog]

NewRequest == [pc |-> "new", dir |-> <<>>, mk |-> FALSE, cat |-> "", files |-> <<>>]

\* module level (lines 19-22) with the clock and the width drawn from given sets
StartUp(instants, rates) ==
    /\ RATE \in rates
    /\ start_date \in instants
    /\ start0 = start_date
    /\ fs = [d \in {} |-> EmptyDir]
    /\ tms = {}
    /\ conf \in InitialConfs
    /\ confDisk = json_dump(conf)
    /\ pc = "idle"
    /\ interval = <<>>
    /\ images = <<>>
    /\ plog = NoLog
    /\ tick0 = NoTick
    /\ last = NoLast
    /\ nticks = 0
    /\ faults = 0
    /\ up = [r \in 1..MaxReq |-> NewRequest]
    /\ exitPc = "running"
    /\ pending = <<>>
    /\ hookPc = "none"
    /\ schedulerRunning = TRUE

Init == StartUp(Instants, Rates)

tickVars == <<pc, interval, images, plog, tick0, last, nticks>>
exitVars == <<exitPc, pending, hookPc, schedulerRunning>>

----------------------------------------------------------------------------
(* upload_page, POST branch (lines 45-55) *)

\* lines 46-48: resolve the directory of the live cursor and test it
UploadResolve(r) ==
    /\ up[r].pc = "new"
    /\ \A q \in 1..(r - 1) : up[q].pc # "new"    \* ids are given in order of arrival
    /\ exitPc = "running"
    /\ \E files \in RequestFiles, cat \in Cats :
         LET d == get_interval(start_date, RATE)
         IN  up' = [up EXCEPT ![r] = [pc |-> "mkdir", dir |-> d, mk |-> ~isdir(d),
                                      cat |-> cat, files |-> files]]
    /\ UNCHANGED <<RATE, start_date, start0, fs, tms, conf, confDisk, faults>>
    /\ UNCHANGED tickVars
    /\ UNCHANGED exitVars

\* line 49: os.mkdir raises FileExistsError when the directory appeared meanwhile
UploadMkdir(r) ==
    /\ up[r].pc = "mkdir"
    /\ exitPc # "exited"
    /\ IF ~up[r].mk
       THEN /\ up' = [up EXCEPT ![r].pc = "save"]
            /\ fs' = fs
       ELSE IF isdir(up[r].dir)
       THEN /\ up' = [up EXCEPT ![r] = [NewRequest EXCEPT !.pc = "failed"]]
            /\ fs' = fs
       ELSE /\ up' = [up EXCEPT ![r].pc = "save", ![r].mk = FALSE]
            /\ fs' = PutDir(fs, up[r].dir, EmptyDir)
    /\ UNCHANGED <<RATE, start_date, start0, tms, conf, confDisk, faults>>
    /\ UNCHANGED tickVars
    /\ UNCHANGED exitVars

\* lines 51-55: one iteration of the loop over request.files
UploadSave(r) ==
    /\ up[r].pc = "save"
    /\ exitPc # "exited"
    /\ LET file == Head(up[r].files)
           rest == Tail(up[r].files)
           d == up[r].dir
       IN  /\ up' = [up EXCEPT ![r] = IF rest = <<>> THEN [NewRequest EXCEPT !.pc = "done"]
                                         ELSE [up[r] EXCEPT !.files = rest]]
           /\ IF PATTERN_match(file)
              THEN fs' = PutDir(fs, d, WriteFile(fs[d], StoredName(up[r].cat, file),
                                                 [src |-> r, form |-> "raw"]))
              ELSE fs' = fs
    /\ UNCHANGED <<RATE, start_date, start0, tms, conf, confDisk, faults>>
    /\ UNCHANGED tickVars
    /\ UNCHANGED exitVars

----------------------------------------------------------------------------
(* process (lines 137-183) *)

\* what the try block of one iteration did: completed, or the call that raised
\* (save_metadata raising leaves the same files as georef_tif raising)
TryResults == {"ok", "preprocess", "georef_tif"}

\* lines 154-155
georeferenced(imgs) == [i \in 1..Len(imgs) |-> GeoName(imgs[i])]

\* lines 159-170: one iteration on directory dir; preprocess writes the artifact,
\* georef_tif rewrites it in place, an exception is caught
try_block(dir, val, res) ==
    CASE res = "preprocess" -> dir
      [] res = "georef_tif" -> WriteFile(dir, GeoName(val), [src |-> dir[val].src, form |-> "pre"])
      [] res = "ok" -> WriteFile(dir, GeoName(val), [src |-> dir[val].src, form |-> "geo"])

\* lines 158-170: the loop from index i on
RECURSIVE per_file_loop(_, _, _, _)
per_file_loop(dir, imgs, results, i) ==
    IF i > Len(imgs) THEN dir
    ELSE per_file_loop(try_block(dir, imgs[i], results[i]), imgs, results, i + 1)

\* the artifacts of the snapshot that exist in directory dir
Artifacts(dir, imgs) == {i \in 1..Len(imgs) : GeoName(imgs[i]) \in DOMAIN dir}

\* lines 172-181 on directory dir; ext_ok: the collaborator called after the
\* branch is taken (merge, or set_nodata) succeeds.  os.system never raises.
merge_stage(dir, imgs, ext_ok) ==
    LET geo == georeferenced(imgs)
        log == [NoLog EXCEPT !.n_artifacts = Cardinality(Artifacts(dir, imgs))]
    IN  IF Len(geo) > 1
        THEN IF ext_ok
             THEN [dir |-> WriteFile(dir, MergedName, [src |-> 0, form |-> "merged"]),
                   log |-> [log EXCEPT !.mode = "merge", !.merged_written = TRUE,
                                       !.tiling_invoked = TRUE]]
             ELSE [dir |-> dir,
                   log |-> [log EXCEPT !.mode = "merge", !.raised = "merge"]]
        ELSE IF Len(geo) = 1
        THEN IF geo[1] \notin DOMAIN dir
             THEN [dir |-> dir,
                   log |-> [log EXCEPT !.mode = "copy", !.raised = "copyfile"]]
             ELSE IF ext_ok
             THEN [dir |-> WriteFile(dir, MergedName, [dir[geo[1]] EXCEPT !.form = "nodata"]),
                   log |-> [log EXCEPT !.mode = "copy", !.merged_written = TRUE,
                                       !.tiling_invoked = TRUE]]
             ELSE [dir |-> WriteFile(dir, MergedName, dir[geo[1]]),
                   log |-> [log EXCEPT !.mode = "copy", !.merged_written = TRUE,
                                       !.raised = "set_nodata"]]
        ELSE [dir |-> dir, log |-> log]

----------------------------------------------------------------------------
(* update (lines 88-109) *)

otherVars == <<RATE, start0, up>>

\* the subsets of S with at most k elements
RECURSIVE AtMost(_, _)
AtMost(S, k) ==
    IF k = 0 THEN {{}}
    ELSE LET smaller == AtMost(S, k - 1)
         IN  smaller \cup {T \cup {x} : T \in smaller, x \in S}

\* the results of the try blocks of n iterations, at most k of them failures
ResultsOf(n, k) ==
    UNION {{[i \in 1..n |-> IF i \in F THEN kind[i] ELSE "ok"] :
               kind \in [F -> TryResults \ {"ok"}]} : F \in AtMost(1..n, k)}

Failures(results) == Cardinality({i \in DOMAIN results : results[i] # "ok"})

CanStartTick ==
    /\ pc = "idle"
    /\ schedulerRunning
    /\ exitPc # "exited"
    /\ nticks < MaxTicks

Finished(kind, log) ==
    [kind |-> kind, interval |-> interval, images |-> images,
     start |-> tick0.start, conf |-> tick0.conf, plog |-> log]

\* update() is left: its locals are gone
Return ==
    /\ pc' = "idle"
    /\ nticks' = nticks + 1
    /\ interval' = <<>>
    /\ images' = <<>>
    /\ plog' = NoLog
    /\ tick0' = NoTick

\* an exception leaves update(); the scheduler logs it and keeps the job
Raise(log) ==
    /\ last' = Finished("raised", log)
    /\ Return

\* the skip branch, were it to record the window like the processing branch
TickSkip_recording ==
    /\ CanStartTick
    /\ LET d == get_interval(start_date, RATE)
       IN  /\ ~isdir(d) \/ listdir(d) = <<>>
           /\ start_date' = TimePlus(start_date, RATE)
           /\ conf' = [conf EXCEPT !.counter = conf.counter + 1]
           /\ last' = [kind |-> "skip", interval |-> d, images |-> <<>>,
                       start |-> start_date, conf |-> conf, plog |-> NoLog]
    /\ nticks' = nticks + 1
    /\ UNCHANGED <<fs, tms, confDisk, pc, interval, images, plog, tick0>>
    /\ UNCHANGED <<otherVars, faults>>
    /\ UNCHANGED exitVars

\* lines 95-100: the window directory is absent or empty
TickSkip ==
    /\ CanStartTick
    /\ LET d == get_interval(start_date, RATE)
       IN  /\ ~isdir(d) \/ listdir(d) = <<>>
           /\ start_date' = TimePlus(start_date, RATE)
           /\ last' = [kind |-> "skip", interval |-> d, images |-> <<>>,
                       start |-> start_date, conf |-> conf, plog |-> NoLog]
    /\ nticks' = nticks + 1
    /\ UNCHANGED <<fs, tms, conf, confDisk, pc, interval, images, plog, tick0>>
    /\ UNCHANGED <<otherVars, faults>>
    /\ UNCHANGED exitVars

\* lines 95-103: the window directory has files; take the snapshot (the
\* listing of line 102; a file stored between lines 98 and 102 is in it)
TickBegin ==
    /\ CanStartTick
    /\ LET d == get_interval(start_date, RATE)
       IN  /\ isdir(d) /\ listdir(d) # <<>>
           /\ interval' = d
           /\ images' = listdir(d)
    /\ plog' = NoLog
    /\ tick0' = [start |-> start_date, conf |-> conf]
    /\ pc' = "process"
    /\ UNCHANGED <<start_date, fs, tms, conf, confDisk, last, nticks>>
    /\ UNCHANGED <<otherVars, faults>>
    /\ UNCHANGED exitVars

\* save_conf with its failure caught and dropped
save_conf_swallows(ok) == FALSE

\* lines 183, 186-189: nothing catches an exception of open() or json.dump();
\* ok: the store accepts the write
save_conf_raises(ok) == ~ok

\* line 104: the call of process(), with save_conf() (line 183, lines 186-189)
\* at its end
Process ==
    /\ pc = "process"
    /\ exitPc # "exited"
    /\ \E results \in ResultsOf(Len(images), MaxFaults - faults),
          ext_ok \in BOOLEAN, save_ok \in BOOLEAN :
         LET looped == per_file_loop(fs[interval], images, results, 1)
             stage == merge_stage(looped, images, ext_ok)
             log == [stage.log EXCEPT !.results = results]
             ext_failed == stage.log.raised \in {"merge", "set_nodata"}
             save_failed == stage.log.raised = "no" /\ ~save_ok
         IN  /\ ext_ok \/ ext_failed
             /\ save_ok \/ save_failed
             /\ faults' = faults + Failures(results) + (IF ext_failed THEN 1 ELSE 0)
                                  + (IF save_failed THEN 1 ELSE 0)
             /\ faults' <= MaxFaults
             /\ fs' = PutDir(fs, interval, stage.dir)
             /\ tms' = IF stage.log.tiling_invoked /\ stage.log.raised = "no"
                       THEN tms \cup {interval} ELSE tms
             /\ IF stage.log.raised # "no"
                THEN /\ Raise(log)
                     /\ confDisk' = confDisk
                ELSE IF ~save_conf_raises(save_ok)
                THEN /\ confDisk' = IF save_ok THEN json_dump(conf) ELSE confDisk
                     /\ plog' = [log EXCEPT !.saved = IF save_ok THEN "ok" ELSE "failed"]
                     /\ pc' = "advance"
                     /\ UNCHANGED <<interval, images, tick0, last, nticks>>
                ELSE /\ confDisk' = confDisk
                     /\ Raise([log EXCEPT !.raised = "save_conf", !.saved = "failed"])
    /\ UNCHANGED <<start_date, conf>>
    /\ UNCHANGED otherVars
    /\ UNCHANGED exitVars

\* line 105
Advance ==
    /\ pc = "advance"
    /\ exitPc # "exited"
    /\ start_date' = TimePlus(start_date, RATE)
    /\ pc' = "move"
    /\ UNCHANGED <<fs, tms, conf, confDisk, interval, images, plog, tick0, last, nticks>>
    /\ UNCHANGED <<otherVars, faults>>
    /\ UNCHANGED exitVars

----------------------------------------------------------------------------
(* move_unprocessed_files (lines 112-134) *)

\* the listing minus the snapshot and its artifact names only
not_processed_with_merged(listing, imgs) ==
    LET dimages == Range(imgs)
        dgeo == {GeoName(x) : x \in dimages}
    IN  {file \in listing : file \notin dimages /\ file \notin dgeo}

\* lines 120-126: the listing minus the snapshot, its artifact names and merged.tif
not_processed(listing, imgs) ==
    LET dimages == Range(imgs)
        dgeo == {GeoName(x) : x \in dimages}
    IN  {file \in listing : file \notin dimages /\ file \notin dgeo /\ file # MergedName}

\* lines 133-134: os.rename of every listed file into the new directory
MoveFiles(tree, from, to, S) ==
    LET moved == [m \in DOMAIN tree[to] \cup S |->
                    IF m \in S THEN tree[from][m] ELSE tree[to][m]]
    IN  [e \in DOMAIN tree |->
            IF e = to THEN moved
            ELSE IF e = from THEN RemoveFiles(tree[from], S)
            ELSE tree[e]]

\* the directory made whether or not a file is to be moved
needs_new_dir_always(np) == TRUE

\* line 128: if not_processed
needs_new_dir(np) == np # {}

\* the directory of the window after the next one
new_dir_path_skipping == get_interval(TimePlus(start_date, RATE), RATE)

\* lines 129-130: the directory of the window the cursor now designates
new_dir_path == get_interval(start_date, RATE)

\* line 106
Move ==
    /\ pc = "move"
    /\ exitPc # "exited"
    /\ LET np == not_processed(Files(interval), images)
           new_dir == new_dir_path
           log == [plog EXCEPT !.listed = TRUE, !.stragglers = np]
       IN  IF ~needs_new_dir(np)
           THEN /\ fs' = fs
                /\ plog' = log
                /\ pc' = "record"
                /\ UNCHANGED <<interval, images, tick0, last, nticks>>
           ELSE IF isdir(new_dir)
           THEN \* line 131: os.mkdir raises FileExistsError
                /\ fs' = fs
                /\ Raise([log EXCEPT !.raised = "mkdir"])
           ELSE /\ fs' = MoveFiles(PutDir(fs, new_dir, EmptyDir), interval, new_dir, np)
                /\ plog' = log
                /\ pc' = "record"
                /\ UNCHANGED <<interval, images, tick0, last, nticks>>
    /\ UNCHANGED <<start_date, tms, conf, confDisk>>
    /\ UNCHANGED <<otherVars, faults>>
    /\ UNCHANGED exitVars

\* line 108: conf[conf["counter"]] = interval
Record ==
    /\ pc = "record"
    /\ exitPc # "exited"
    /\ LET key == IntKey(conf.counter)
       IN  conf' = [conf EXCEPT !.entries =
                        [k \in DOMAIN conf.entries \cup {key} |->
                            IF k = key THEN interval ELSE conf.entries[k]]]
    /\ pc' = "count"
    /\ UNCHANGED <<start_date, fs, tms, confDisk, interval, images, plog, tick0,
                   last, nticks>>
    /\ UNCHANGED <<otherVars, faults>>
    /\ UNCHANGED exitVars

\* line 109: conf["counter"] += 1, and update() returns
Count ==
    /\ pc = "count"
    /\ exitPc # "exited"
    /\ conf' = [conf EXCEPT !.counter = conf.counter + 1]
    /\ last' = Finished("done", plog)
    /\ Return
    /\ UNCHANGED <<start_date, fs, tms, confDisk>>
    /\ UNCHANGED <<otherVars, faults>>
    /\ UNCHANGED exitVars

----------------------------------------------------------------------------
(* main (lines 192-198) and interpreter exit *)

\* lines 197-198, in registration order
Registered == <<"scheduler.shutdown", "save_conf">>

dataVars == <<RATE, start_date, start0, fs, tms, conf, up, faults>>

\* the interpreter starts to exit; atexit runs the hooks last-registered first
BeginExit ==
    /\ exitPc = "running"
    /\ exitPc' = "hooks"
    /\ pending' = Registered
    /\ UNCHANGED <<hookPc, schedulerRunning, confDisk>>
    /\ UNCHANGED dataVars
    /\ UNCHANGED tickVars

NextHook == pending[Len(pending)]

PopHook == pending' = SubSeq(pending, 1, Len(pending) - 1)

\* save_conf, line 188: open(CONF_PATH, 'w') truncates the file
ExitSaveOpen ==
    /\ exitPc = "hooks" /\ pending # <<>> /\ NextHook = "save_conf"
    /\ hookPc = "none"
    /\ hookPc' = "dump"
    /\ confDisk' = Truncated
    /\ UNCHANGED <<exitPc, pending, schedulerRunning>>
    /\ UNCHANGED dataVars
    /\ UNCHANGED tickVars

\* save_conf, line 189: json.dump(conf, out)
ExitSaveDump ==
    /\ exitPc = "hooks" /\ pending # <<>> /\ NextHook = "save_conf"
    /\ hookPc = "dump"
    /\ hookPc' = "none"
    /\ confDisk' = json_dump(conf)
    /\ PopHook
    /\ UNCHANGED <<exitPc, schedulerRunning>>
    /\ UNCHANGED dataVars
    /\ UNCHANGED tickVars

\* scheduler.shutdown(): no further job is started
ExitShutdown ==
    /\ exitPc = "hooks" /\ pending # <<>> /\ NextHook = "scheduler.shutdown"
    /\ hookPc = "none"
    /\ hookPc' = "join"
    /\ schedulerRunning' = FALSE
    /\ UNCHANGED <<exitPc, pending, confDisk>>
    /\ UNCHANGED dataVars
    /\ UNCHANGED tickVars

\* scheduler.shutdown(wait=True) returns when the running job has finished
ExitJoin ==
    /\ exitPc = "hooks" /\ pending # <<>> /\ NextHook = "scheduler.shutdown"
    /\ hookPc = "join"
    /\ pc = "idle"
    /\ hookPc' = "none"
    /\ PopHook
    /\ UNCHANGED <<exitPc, schedulerRunning, confDisk>>
    /\ UNCHANGED dataVars
    /\ UNCHANGED tickVars

\* all hooks have run: the process ends
Exited ==
    /\ exitPc = "hooks" /\ pending = <<>>
    /\ exitPc' = "exited"
    /\ UNCHANGED <<pending, hookPc, schedulerRunning, confDisk>>
    /\ UNCHANGED dataVars
    /\ UNCHANGED tickVars

----------------------------------------------------------------------------

Next ==
    \/ \E r \in 1..MaxReq : UploadResolve(r)
    \/ \E r \in 1..MaxReq : UploadMkdir(r)
    \/ \E r \in 1..MaxReq : UploadSave(r)
    \/ TickSkip
    \/ TickBegin
    \/ Process
    \/ Advance
    \/ Move
    \/ Record
    \/ Count
    \/ BeginExit
    \/ ExitSaveOpen
    \/ ExitSaveDump
    \/ ExitShutdown
    \/ ExitJoin
    \/ Exited

Spec == Init /\ [][Next]_vars

TypeOK ==
    /\ pc \in {"idle", "process", "advance", "move", "record", "count"}
    /\ exitPc \in {"running", "hooks", "exited"}
    /\ nticks \in 0..MaxTicks
    /\ conf.counter \in Nat

----------------------------------------------------------------------------
(* Steps and states the properties speak about *)

InDir(tree, d, f) == d \in DOMAIN tree /\ f \in DOMAIN tree[d]

\* update() is entered
TickStarts == pc = "idle" /\ (pc' # "idle" \/ nticks' = nticks + 1)

\* update() is left after the processing branch was taken
ProcessingTickEnds == pc # "idle" /\ pc' = "idle"

\* the call of process() is over
ProcessEnds == pc = "process" /\ pc' # "process"

\* the call of move_unprocessed_files() is over
MoveEnds == pc = "move" /\ pc' # "move"

\* the log of the process() call that ends in this step
EndedLog == IF pc' = "idle" THEN last'.plog ELSE plog'

\* the directory of the window after the one being processed
NextDirOfTick == get_interval(TimePlus(tick0.start, RATE), RATE)

\* the stragglers of the window being processed
Stragglers == not_processed(Files(interval), images)

\* failures of the collaborators themselves (merge, set_nodata, the store)
ExternalFailures == {"merge", "set_nodata", "save_conf"}

WindowEmpty == LET d == get_interval(start_date, RATE) IN ~isdir(d) \/ Files(d) = {}

----------------------------------------------------------------------------
(* C1 *)

\* C1: every invocation of update() advances start_date by exactly RATE,
\* whatever its outcome: after k finished ticks the cursor is its initial
\* value plus k * RATE.
C1_CursorAdvancesEveryTick == pc = "idle" => start_date = TimePlus(start0, nticks * RATE)

----------------------------------------------------------------------------
(* C2 *)

\* C2: when move_unprocessed_files has run, every straggler of the processed
\* window is in the directory of the next window and no longer in the old
\* one, also when the next directory already exists.
C2_StragglersReachNextWindow ==
    [][MoveEnds => \A f \in Stragglers :
                      /\ InDir(fs', get_interval(start_date, RATE), f)
                      /\ ~InDir(fs', interval, f)]_vars

----------------------------------------------------------------------------
(* C3 *)

\* C3: a snapshot file whose try block failed and that has no artifact is, at
\* the end of the tick, in the directory of the window starting at T + RATE
\* and no longer in the old directory.
C3_FailedInputCarriedForward ==
    [][ProcessingTickEnds =>
         \A i \in DOMAIN last'.plog.results :
            (last'.plog.results[i] # "ok" /\ ~InDir(fs', interval, GeoName(images[i])))
            => /\ InDir(fs', NextDirOfTick, images[i])
               /\ ~InDir(fs', interval, images[i])]_vars

----------------------------------------------------------------------------
(* C4 *)

\* C4: the merge decision follows the number n of artifacts that exist after
\* the loop: n >= 2 merges, n = 1 copies, n = 0 writes no merged.tif, does no
\* tiling and raises nothing; tiling is invoked iff merged.tif was written.
\* (Stated for the runs in which merge, set_nodata and the store do not fail.)
C4_MergeDecisionByArtifacts ==
    [][(ProcessEnds /\ EndedLog.raised \notin ExternalFailures) =>
         LET log == EndedLog
             n == log.n_artifacts
         IN  /\ n >= 2 => log.mode = "merge"
             /\ n = 1 => log.mode = "copy"
             /\ n = 0 => /\ log.mode = "none"
                         /\ ~log.merged_written
                         /\ ~log.tiling_invoked
                         /\ log.raised = "no"
             /\ log.tiling_invoked <=> log.merged_written]_vars

----------------------------------------------------------------------------
(* C5 *)

\* C5: when process() has run its loop, every snapshot file has a result,
\* every file whose try block completed has its artifact, and no file whose
\* try block raised has an artifact in the window directory.
C5_FailureIsolation ==
    [][ProcessEnds =>
         LET results == EndedLog.results
         IN  /\ DOMAIN results = 1..Len(images)
             /\ \A i \in DOMAIN results :
                   results[i] = "ok" <=> InDir(fs', interval, GeoName(images[i]))]_vars

----------------------------------------------------------------------------
(* C6 *)

\* C6: when the merge stage of process() raises, the same tick still moves
\* the stragglers of the window into the directory of the next window.
C6_CarryForwardDespiteMergeFailure ==
    [][(ProcessingTickEnds /\ last'.plog.raised \in {"merge", "copyfile", "set_nodata"})
         => \A f \in Stragglers :
               /\ InDir(fs', NextDirOfTick, f)
               /\ ~InDir(fs', interval, f)]_vars

----------------------------------------------------------------------------
(* C7 *)

\* C7: every processing tick increments the counter by exactly 1 and adds
\* exactly one entry, keyed by the old counter, holding the label of the
\* processed window; no step changes or removes an entry or lowers the counter.
\* (Stated for the ticks in which merge, set_nodata and the store do not fail.)
C7_OneRecordPerProcessingTick ==
    [][/\ conf'.counter >= conf.counter
       /\ \A k \in DOMAIN conf.entries :
             k \in DOMAIN conf'.entries /\ conf'.entries[k] = conf.entries[k]
       /\ (ProcessingTickEnds /\ last'.plog.raised \notin ExternalFailures) =>
             /\ conf'.counter = tick0.conf.counter + 1
             /\ DOMAIN conf'.entries = DOMAIN tick0.conf.entries \cup {IntKey(tick0.conf.counter)}
             /\ conf'.entries[IntKey(tick0.conf.counter)] = interval]_vars

----------------------------------------------------------------------------
(* C8 *)

\* C8: when a processing tick returns normally, conf.json holds the
\* in-memory configuration, the tick's record and counter included.
C8_RecordPersistedAtTickEnd ==
    [][(ProcessingTickEnds /\ last'.kind = "done") => confDisk' = json_dump(conf')]_vars

----------------------------------------------------------------------------
(* C9 *)

\* C9: while the save_conf exit hook is running, the scheduler has been
\* stopped and no tick is in progress.
C9_NoTickDuringShutdownSave ==
    (exitPc = "hooks" /\ hookPc = "dump") => (~schedulerRunning /\ pc = "idle")

----------------------------------------------------------------------------
(* C10 *)

\* C10: a tick that starts on an absent or empty window directory advances
\* the cursor by RATE, returns, and changes neither the images root, the
\* tiles root, the configuration nor conf.json.
C10_SkipChangesOnlyCursor ==
    [][(TickStarts /\ WindowEmpty) =>
         /\ start_date' = TimePlus(start_date, RATE)
         /\ pc' = "idle"
         /\ UNCHANGED <<fs, tms, conf, confDisk>>]_vars

\* a tick has skipped a window whose directory exists and is empty
C10_Witness ==
    /\ last.kind = "skip"
    /\ isdir(last.interval)
    /\ Files(last.interval) = {}
    /\ start_date = TimePlus(last.start, RATE)

----------------------------------------------------------------------------
(* C11 *)

\* C11: an upload of a non-matching file name leaves the images root as it
\* was, so every window directory that exists holds a file, or is about to
\* receive the files of a request that is still being served.
C11_DirectoryIffFile ==
    \A d \in DOMAIN fs :
        Files(d) # {} \/ \E r \in 1..MaxReq : up[r].pc = "save" /\ up[r].dir = d

----------------------------------------------------------------------------
(* C12 *)

\* every entry key lies below the counter and every key below the counter
\* has an entry
CounterMatchesEntries(c) ==
    {k.v : k \in DOMAIN c.entries} = 0..(c.counter - 1)

\* C12: when the store fails at the save_conf() of a tick, the exception
\* leaves update() and the counter and the entries are those of the start of
\* the tick; whenever update() is left, counter and entries match.
C12_PersistenceFailureAbortsBookkeeping ==
    [][/\ (ProcessEnds /\ EndedLog.saved = "failed") =>
             /\ pc' = "idle"
             /\ last'.kind = "raised"
             /\ conf' = tick0.conf
       /\ (pc # "idle" /\ pc' = "idle") => CounterMatchesEntries(conf')]_vars

\* a tick was aborted by a failure of the store and left conf as it was
C12_Witness ==
    /\ pc = "idle"
    /\ last.kind = "raised"
    /\ last.plog.saved = "failed"
    /\ conf = last.conf
    /\ CounterMatchesEntries(conf)

----------------------------------------------------------------------------
(* C13 *)

\* request r resolves its directory / makes it / stores a file in this step
Resolves(r) == up[r].pc = "new" /\ up'[r].pc # "new"
MakesDir(r) == up[r].pc = "mkdir" /\ up'[r].pc = "save"
Saves(r) == up[r].pc = "save" /\ up'[r] # up[r]

----------------------------------------------------------------------------
(* C14 *)

\* start-up instants next to the places where a field of the label rolls
\* over: minute, hour, day, month, leap day, year, and the five-digit year
ClockInstants ==
    {<<0, 0>>, <<0, 86399>>,
     <<10956, 86399>>,                     \* 1999-12-31 23:59:59
     <<11015, 86399>>, <<11016, 86399>>,   \* 2000-02-28, 2000-02-29
     <<11016, 59>>, <<11016, 35999>>,      \* 00:00:59, 09:59:59
     <<14517, 85800>>,                     \* 2009-09-30 23:50:00
     <<18120, 36900>>,                     \* 2019-08-12 10:15:00
     <<24855, 11647>>,                     \* 2038-01-19 03:14:07
     <<47540, 86399>>,                     \* 2100-02-28 23:59:59
     <<2932896, 43200>>,                   \* 9999-12-31 12:00:00
     <<2932896, 86399>>}                   \* 9999-12-31 23:59:59
ClockRates == {1, 60, 600, 86400}

\* the server started at any of these instants with any of these widths;
\* no upload arrives, every tick takes the skip branch and moves the cursor
ClockInit == StartUp(ClockInstants, ClockRates)
ClockNext == TickSkip
SpecInterval == ClockInit /\ [][ClockNext]_vars

\* string comparison, character by character, a proper prefix being smaller
LexLess(a, b) ==
    \E i \in 1..(Len(b)) :
        /\ \A j \in 1..(i - 1) : j <= Len(a) /\ a[j] = b[j]
        /\ i > Len(a) \/ a[i] < b[i]

\* C14: the label a tick computes is the label recomputed from the same
\* cursor and width, and when the cursor moves by the width the label of the
\* new window is strictly greater, in lexical order, than the label of the
\* window just left.
C14_LabelsStrictlyIncrease ==
    [][start_date' # start_date =>
          /\ last'.interval = get_interval(start_date, RATE)
          /\ LexLess(get_interval(start_date, RATE), get_interval(start_date', RATE))]_vars

----------------------------------------------------------------------------
(* C15 *)

\* every file of the window directory is a snapshot file, the artifact name
\* of a snapshot file, or merged.tif
NoStragglers ==
    \A f \in Files(interval) :
        \/ f \in Range(images)
        \/ \E x \in Range(images) : f = GeoName(x)
        \/ f = MergedName

\* C15: when move_unprocessed_files finds no straggler it returns normally
\* and leaves the images tree as it was: no directory is created for the
\* next window and no file is moved, renamed or deleted.
C15_NoStragglersNoEffect ==
    [][(MoveEnds /\ NoStragglers) => (fs' = fs /\ pc' = "record")]_vars

\* move_unprocessed_files has returned from a window without stragglers
C15_Witness ==
    /\ pc = "record"
    /\ plog.listed
    /\ plog.stragglers = {}
    /\ NoStragglers
    /\ Files(interval) # {}

----------------------------------------------------------------------------
(* C16 *)

\* directory d will still be looked at: it is the window the cursor
\* designates, or the window of the running tick whose stragglers have not
\* been listed yet
StillInspected(d) ==
    \/ d = get_interval(start_date, RATE)
    \/ pc \in {"process", "advance", "move"} /\ d = interval

\* C16: every upload is stored into a directory that a tick will still
\* inspect, so that it is in the snapshot of the tick that processes its
\* window or is carried forward; no upload is written into a window the
\* cursor has passed and whose stragglers have already been listed.
C16_NoUploadStranded ==
    [][\A r \in 1..MaxReq :
         (Saves(r) /\ PATTERN_match(Head(up[r].files))) => StillInspected(up[r].dir)]_vars

----------------------------------------------------------------------------
(* C17 *)

\* the last tick returned normally after relocating stragglers
LastTickRelocated == last.kind = "done" /\ last.plog.stragglers # {}

\* C17: the tick that follows a tick which relocated stragglers finds the
\* directory of the next window non-empty, takes the processing branch on
\* that window, and its snapshot contains every relocated straggler.
C17_StragglerInNextSnapshot ==
    [][(TickStarts /\ LastTickRelocated) =>
          /\ pc' = "process"
          /\ interval' = get_interval(TimePlus(last.start, RATE), RATE)
          /\ last.plog.stragglers \subseteq Range(images')]_vars

\* the following tick is processing a snapshot that holds the carried files
C17_Witness ==
    /\ pc = "process"
    /\ LastTickRelocated
    /\ interval = get_interval(TimePlus(last.start, RATE), RATE)
    /\ last.plog.stragglers \subseteq Range(images)

----------------------------------------------------------------------------
(* C18 *)

\* a snapshot file, the artifact name of a snapshot file, or merged.tif
Protected(f) ==
    \/ f \in Range(images)
    \/ \E x \in Range(images) : f = GeoName(x)
    \/ f = MergedName

\* C18: the straggler set move_unprocessed_files computes is exactly the
\* directory listing minus the snapshot files, their _geo.tif names and
\* merged.tif; computed again on the same listing and snapshot it is the
\* same set; and every snapshot file, artifact and merged.tif of the
\* processed window is in its directory, unchanged, after the call.
C18_StragglerSetExact ==
    [][MoveEnds =>
          /\ EndedLog.stragglers = {f \in Files(interval) : ~Protected(f)}
          /\ not_processed(Files(interval), images) = EndedLog.stragglers
          /\ \A f \in Files(interval) :
                Protected(f) => InDir(fs', interval, f) /\ fs'[interval][f] = fs[interval][f]]_vars

\* stragglers were relocated and merged.tif, an artifact and the snapshot
\* files are still in the directory of the processed window
C18_Witness ==
    /\ pc = "record"
    /\ plog.stragglers # {}
    /\ plog.merged_written
    /\ MergedName \in Files(interval)
    /\ \E x \in Range(images) : GeoName(x) \in Files(interval)
    /\ Range(images) \subseteq Files(interval)
    /\ plog.stragglers \cap Files(interval) = {}

----------------------------------------------------------------------------
(* C19 *)

\* the keys written by line 108 since start-up
AddedKeys(c) == {k \in DOMAIN c.entries : k.t = "int"}

\* the added entries occupy the keys from the initial counter to counter - 1
\* and their labels increase with the key
LogConsecutive(c) ==
    /\ \E c0 \in InitialConfs :
          {k.v : k \in AddedKeys(c)} = c0.counter..(c.counter - 1)
    /\ \A k1, k2 \in AddedKeys(c) :
          k1.v < k2.v => LexLess(c.entries[k1], c.entries[k2])

\* C19: whenever update() is left the entries added since start-up occupy
\* the consecutive keys from the initial counter to counter - 1 with
\* strictly increasing labels, and a tick never runs the pipeline on the
\* window the tick before it ran the pipeline on (ticks ended by a failure
\* of merge, set_nodata or the store are left aside).
C19_LogConsecutiveOncePerWindow ==
    [][/\ pc' = "idle" => LogConsecutive(conf')
       /\ (pc = "idle" /\ pc' = "process") =>
             ~(/\ last.kind \in {"done", "raised"}
               /\ last.plog.raised \notin ExternalFailures
               /\ last.interval = interval')]_vars

\* the part of C19 about the log alone
C19_LogPart == [][pc' = "idle" => LogConsecutive(conf')]_vars

====
